---------------------------- MODULE Spec2Model ----------------------------
(***************************************************************************)
(* Model of libs/androidfw/include/androidfw/Util.h:                       *)
(*   - android::util::unique_cptr<T>, a move-only handle that releases a   *)
(*     malloc'ed block with std::free();                                   *)
(*   - the resource-id helpers fix_package_id, get_package_id,             *)
(*     get_type_id, get_entry_id, is_internal_resid, is_valid_resid.       *)
(*                                                                         *)
(* Spec      : a client program creating, moving, resetting, releasing and *)
(*             destroying unique_cptr objects.                             *)
(* SpecCodec : a client program calling the resource-id helpers.           *)
(***************************************************************************)
EXTENDS Integers, Sequences, FiniteSets

VARIABLES
  ptr_,        \* the ptr_ field of every unique_cptr object that currently exists
  allocated,   \* addresses malloc() has returned so far
  callerHeld,  \* allocated addresses the caller is responsible for (got from release())
  freeCount,   \* per address, how many times it was passed to std::free()
  last,        \* the last unique_cptr operation: its arguments, result and effects,
               \* the fields before it (pre) and the operation before it (prev)
  resid,       \* the resource id the codec client currently works on (32 bits)
  call         \* the last resource-id helper call: its arguments and result

vars == <<ptr_, allocated, callerHeld, freeCount, last, resid, call>>
ptrVars == <<ptr_, allocated, callerHeld, freeCount, last>>
codecVars == <<resid, call>>

-----------------------------------------------------------------------------
(* Bounds *)

NumHandles == 2      \* unique_cptr objects the client may have at one time
NumAddrs == 2        \* distinct blocks malloc() hands out in one run
MaxFreeCount == 2    \* std::free() calls per address that the model follows
MaxSmallField == 2   \* package/type bytes 0..MaxSmallField are client inputs

Handles == 1..NumHandles
Addrs == 1..NumAddrs
nullptr == 0
Pointers == Addrs \cup {nullptr}

-----------------------------------------------------------------------------
(* unique_cptr: every member function is an operator from the ptr_ fields  *)
(* P of the existing objects to the new fields, the arguments it passed to *)
(* std::free() in order, and its return value.                             *)

Effect(P, freed, ret) == [ptr |-> P, freed |-> freed, ret |-> ret]

\* constexpr unique_cptr() / unique_cptr(std::nullptr_t)
unique_cptr_default(P, h) ==
  Effect([x \in DOMAIN P \cup {h} |-> IF x = h THEN nullptr ELSE P[x]], <<>>, nullptr)

\* explicit unique_cptr(pointer ptr)
unique_cptr_ptr(P, h, ptr) ==
  Effect([x \in DOMAIN P \cup {h} |-> IF x = h THEN ptr ELSE P[x]], <<>>, nullptr)

\* unique_cptr(unique_cptr&& o) : ptr_(o.ptr_) { o.ptr_ = nullptr; }
unique_cptr_move_KeepsSource(P, h, o) ==
  Effect([x \in DOMAIN P \cup {h} |-> IF x = h THEN P[o] ELSE P[x]], <<>>, nullptr)

unique_cptr_move(P, h, o) ==
  LET P1 == [x \in DOMAIN P \cup {h} |-> IF x = h THEN P[o] ELSE P[x]]
      P2 == [P1 EXCEPT ![o] = nullptr]
  IN  Effect(P2, <<>>, nullptr)

\* ~unique_cptr() { std::free(ptr_); }
destructor_NoFree(P, h) ==
  Effect([x \in DOMAIN P \ {h} |-> P[x]], <<>>, nullptr)

destructor(P, h) ==
  Effect([x \in DOMAIN P \ {h} |-> P[x]], <<P[h]>>, nullptr)

\* unique_cptr& operator=(unique_cptr&& o)
operator_assign_move_NoSelfCheck(P, h, o) ==
  LET P1 == [P EXCEPT ![h] = P[o]]
      P2 == [P1 EXCEPT ![o] = nullptr]
  IN  Effect(P2, <<P[h]>>, nullptr)

operator_assign_move_FreesSource(P, h, o) ==
  IF o = h
    THEN Effect(P, <<>>, nullptr)
    ELSE LET P1 == [P EXCEPT ![h] = P[o]]
             P2 == [P1 EXCEPT ![o] = nullptr]
         IN  Effect(P2, <<P[o]>>, nullptr)

operator_assign_move(P, h, o) ==
  IF o = h
    THEN Effect(P, <<>>, nullptr)
    ELSE LET P1 == [P EXCEPT ![h] = P[o]]
             P2 == [P1 EXCEPT ![o] = nullptr]
         IN  Effect(P2, <<P[h]>>, nullptr)

\* unique_cptr& operator=(std::nullptr_t)
operator_assign_nullptr(P, h) ==
  Effect([P EXCEPT ![h] = nullptr], <<P[h]>>, nullptr)

\* pointer release()
release_KeepsPtr(P, h) ==
  Effect(P, <<>>, P[h])

release(P, h) ==
  LET result == P[h]
  IN  Effect([P EXCEPT ![h] = nullptr], <<>>, result)

\* pointer get() const
get(P, h) == Effect(P, <<>>, P[h])

\* void reset(pointer ptr = pointer())
reset_NoSameCheck(P, h, ptr) ==
  LET old_ptr == P[h]
  IN  Effect([P EXCEPT ![h] = ptr], <<old_ptr>>, nullptr)

reset_FreesNew(P, h, ptr) ==
  IF ptr = P[h]
    THEN Effect(P, <<>>, nullptr)
    ELSE Effect([P EXCEPT ![h] = ptr], <<ptr>>, nullptr)

reset(P, h, ptr) ==
  IF ptr = P[h]
    THEN Effect(P, <<>>, nullptr)
    ELSE LET old_ptr == P[h]
         IN  Effect([P EXCEPT ![h] = ptr], <<old_ptr>>, nullptr)

\* void swap(unique_cptr& o) { std::swap(ptr_, o.ptr_); }
swap(P, h, o) ==
  Effect([x \in DOMAIN P |-> IF x = h THEN P[o] ELSE IF x = o THEN P[h] ELSE P[x]],
         <<>>, nullptr)

\* explicit operator bool() const
operator_bool(P, h) == P[h] # nullptr

\* bool operator==(const unique_cptr& o) const
operator_eq(P, h, o) == P[h] = P[o]

\* bool operator==(std::nullptr_t) const
operator_eq_nullptr(P, h) == P[h] = nullptr

-----------------------------------------------------------------------------
(* std::free(): free(nullptr) does nothing; any other address is counted.  *)

RECURSIVE std_free(_, _)
std_free(count, args) ==
  IF args = <<>>
    THEN count
    ELSE LET a == Head(args)
             c == IF a = nullptr THEN count ELSE [count EXCEPT ![a] = @ + 1]
         IN  std_free(c, Tail(args))

\* the addresses (not nullptr) an operation deallocated
Deallocated(freed) == {freed[i] : i \in DOMAIN freed} \ {nullptr}

-----------------------------------------------------------------------------
(* The client program *)

Live == DOMAIN ptr_

\* malloc() returns a block it has not returned before: the next one.
malloc == {a \in Addrs : a \notin allocated /\ \A b \in Addrs : b < a => b \in allocated}

\* An address the caller may hand to a handle: a block malloc() returns now,
\* or one the caller got back from release().
Fresh == malloc
Adoptable == Fresh \cup callerHeld

NoPrev == [op |-> "none", self |-> 0, ret |-> nullptr]
NoOp == [op |-> "none", self |-> 0, other |-> 0, arg |-> nullptr, ret |-> nullptr,
         freed |-> <<>>, pre |-> <<>>, prev |-> NoPrev]

Zero32 == [i \in 0..31 |-> 0]
NoCall == [fn |-> "none", id |-> Zero32, pkg |-> 0, ret |-> 0, retb |-> FALSE]

\* One member-function call with effect e: the fields change, the frees are
\* counted and the call is recorded.
Apply(op, h, o, arg, e) ==
  /\ \A a \in Deallocated(e.freed) : freeCount[a] < MaxFreeCount
  /\ ptr_' = e.ptr
  /\ freeCount' = std_free(freeCount, e.freed)
  /\ last' = [op |-> op, self |-> h, other |-> o, arg |-> arg, ret |-> e.ret,
              freed |-> e.freed, pre |-> ptr_,
              prev |-> [op |-> last.op, self |-> last.self, ret |-> last.ret]]
  /\ UNCHANGED codecVars

DefaultConstruct(h) ==
  /\ h \notin Live
  /\ Apply("unique_cptr()", h, 0, nullptr, unique_cptr_default(ptr_, h))
  /\ UNCHANGED <<allocated, callerHeld>>

PtrConstruct(h, p) ==
  /\ h \notin Live
  /\ p \in Adoptable
  /\ Apply("unique_cptr(ptr)", h, 0, p, unique_cptr_ptr(ptr_, h, p))
  /\ allocated' = allocated \cup {p}
  /\ callerHeld' = callerHeld \ {p}

MoveConstruct(h, o) ==
  /\ h \notin Live
  /\ o \in Live
  /\ Apply("unique_cptr(&&)", h, o, nullptr, unique_cptr_move(ptr_, h, o))
  /\ UNCHANGED <<allocated, callerHeld>>

Destroy(h) ==
  /\ h \in Live
  /\ Apply("~unique_cptr", h, 0, nullptr, destructor(ptr_, h))
  /\ UNCHANGED <<allocated, callerHeld>>

MoveAssign(h, o) ==
  /\ h \in Live
  /\ o \in Live
  /\ Apply("operator=(&&)", h, o, nullptr, operator_assign_move(ptr_, h, o))
  /\ UNCHANGED <<allocated, callerHeld>>

AssignNullptr(h) ==
  /\ h \in Live
  /\ Apply("operator=(nullptr)", h, 0, nullptr, operator_assign_nullptr(ptr_, h))
  /\ UNCHANGED <<allocated, callerHeld>>

Release(h) ==
  /\ h \in Live
  /\ LET e == release(ptr_, h)
     IN  /\ Apply("release", h, 0, nullptr, e)
         /\ callerHeld' = callerHeld \cup ({e.ret} \ {nullptr})
  /\ UNCHANGED allocated

Get(h) ==
  /\ h \in Live
  /\ Apply("get", h, 0, nullptr, get(ptr_, h))
  /\ UNCHANGED <<allocated, callerHeld>>

\* reset() / reset(nullptr), reset(a.get()), or reset(p) with p from the caller
Reset(h, p) ==
  /\ h \in Live
  /\ p \in Adoptable \cup {nullptr, ptr_[h]}
  /\ Apply("reset", h, 0, p, reset(ptr_, h, p))
  /\ allocated' = allocated \cup ({p} \ {nullptr})
  /\ callerHeld' = callerHeld \ {p}

Swap(h, o) ==
  /\ h \in Live
  /\ o \in Live
  /\ Apply("swap", h, o, nullptr, swap(ptr_, h, o))
  /\ UNCHANGED <<allocated, callerHeld>>

Init ==
  /\ ptr_ = <<>>
  /\ allocated = {}
  /\ callerHeld = {}
  /\ freeCount = [a \in Addrs |-> 0]
  /\ last = NoOp
  /\ resid = Zero32
  /\ call = NoCall

Next ==
  \/ \E h \in Handles : DefaultConstruct(h)
  \/ \E h \in Handles, p \in Addrs : PtrConstruct(h, p)
  \/ \E h, o \in Handles : MoveConstruct(h, o)
  \/ \E h \in Handles : Destroy(h)
  \/ \E h, o \in Handles : MoveAssign(h, o)
  \/ \E h \in Handles : AssignNullptr(h)
  \/ \E h \in Handles : Release(h)
  \/ \E h \in Handles : Get(h)
  \/ \E h \in Handles, p \in Pointers : Reset(h, p)
  \/ \E h, o \in Handles : Swap(h, o)

Spec == Init /\ [][Next]_vars

-----------------------------------------------------------------------------
(* 32-bit unsigned arithmetic.  A uint32_t is its 32 bits, bit 0 the least  *)
(* significant; a uint8_t or uint16_t result is its value.                  *)

Bit(n, i) == (n \div (2 ^ i)) % 2

\* the uint32_t whose upper half is hi and lower half is lo, as in 0xHHHHLLLLu
U32(hi, lo) == [i \in 0..31 |-> IF i < 16 THEN Bit(lo, i) ELSE Bit(hi, i - 16)]

\* static_cast<uint32_t>(b) of a uint8_t
static_cast_uint32(b) == [i \in 0..31 |-> IF i < 8 THEN Bit(b, i) ELSE 0]

ShiftLeft(v, n) == [i \in 0..31 |-> IF i >= n THEN v[i - n] ELSE 0]
ShiftRight(v, n) == [i \in 0..31 |-> IF i + n <= 31 THEN v[i + n] ELSE 0]
BitAnd(v, w) == [i \in 0..31 |-> IF v[i] = 1 /\ w[i] = 1 THEN 1 ELSE 0]
BitOr(v, w) == [i \in 0..31 |-> IF v[i] = 1 \/ w[i] = 1 THEN 1 ELSE 0]
NonZero(v) == \E i \in 0..31 : v[i] = 1

RECURSIVE LowBits(_, _)
LowBits(v, n) == IF n = 0 THEN 0 ELSE v[0] + 2 * LowBits(ShiftRight(v, 1), n - 1)

static_cast_uint8(v) == LowBits(v, 8)
static_cast_uint16(v) == LowBits(v, 16)

-----------------------------------------------------------------------------
(* The resource-id helpers *)

fix_package_id_Shift16(resid_, package_id) ==
  BitOr(resid_, ShiftLeft(static_cast_uint32(package_id), 16))

fix_package_id(resid_, package_id) ==
  BitOr(resid_, ShiftLeft(static_cast_uint32(package_id), 24))

get_package_id(resid_) ==
  static_cast_uint8(BitAnd(ShiftRight(resid_, 24), U32(0, 255)))

get_type_id(resid_) ==
  static_cast_uint8(BitAnd(ShiftRight(resid_, 16), U32(0, 255)))

get_entry_id(resid_) ==
  static_cast_uint16(BitAnd(resid_, U32(0, 65535)))

is_internal_resid_NoTypeCheck(resid_) ==
  NonZero(BitAnd(resid_, U32(65535, 0)))

is_internal_resid(resid_) ==
  /\ NonZero(BitAnd(resid_, U32(65535, 0)))
  /\ ~NonZero(BitAnd(resid_, U32(255, 0)))

is_valid_resid_Or(resid_) ==
  \/ NonZero(BitAnd(resid_, U32(255, 0)))
  \/ NonZero(BitAnd(resid_, U32(65280, 0)))

is_valid_resid(resid_) ==
  /\ NonZero(BitAnd(resid_, U32(255, 0)))
  /\ NonZero(BitAnd(resid_, U32(65280, 0)))

-----------------------------------------------------------------------------
(* The codec client: it starts from some resource id and calls the helpers *)

ByteInputs == (0..MaxSmallField) \cup {127, 128, 255}
EntryInputs == {0, 2, 65535}
ResidInputs == {U32(p * 256 + t, e) : p \in ByteInputs, t \in ByteInputs, e \in EntryInputs}

Called(fn, id, pkg, ret, retb) ==
  /\ call' = [fn |-> fn, id |-> id, pkg |-> pkg, ret |-> ret, retb |-> retb]
  /\ UNCHANGED ptrVars

\* resid = fix_package_id(resid, pkg)
FixPackageId(pkg) ==
  /\ resid' = fix_package_id(resid, pkg)
  /\ Called("fix_package_id", resid, pkg, 0, FALSE)

GetPackageId ==
  /\ Called("get_package_id", resid, 0, get_package_id(resid), FALSE)
  /\ UNCHANGED resid

GetTypeId ==
  /\ Called("get_type_id", resid, 0, get_type_id(resid), FALSE)
  /\ UNCHANGED resid

GetEntryId ==
  /\ Called("get_entry_id", resid, 0, get_entry_id(resid), FALSE)
  /\ UNCHANGED resid

IsInternalResid ==
  /\ Called("is_internal_resid", resid, 0, 0, is_internal_resid(resid))
  /\ UNCHANGED resid

IsValidResid ==
  /\ Called("is_valid_resid", resid, 0, 0, is_valid_resid(resid))
  /\ UNCHANGED resid

InitCodec ==
  /\ ptr_ = <<>>
  /\ allocated = {}
  /\ callerHeld = {}
  /\ freeCount = [a \in Addrs |-> 0]
  /\ last = NoOp
  /\ resid \in ResidInputs
  /\ call = NoCall

NextCodec ==
  \/ \E pkg \in ByteInputs : FixPackageId(pkg)
  \/ GetPackageId
  \/ GetTypeId
  \/ GetEntryId
  \/ IsInternalResid
  \/ IsValidResid

SpecCodec == InitCodec /\ [][NextCodec]_vars

-----------------------------------------------------------------------------
(* Properties of unique_cptr, checked under Spec *)

Self == last.self
Other == last.other
Before(h) == last.pre[h]
NoFreeCall == last.freed = <<>>
SelfReset == last.op = "reset" /\ last.arg = Before(Self)
SelfMoveAssign == last.op = "operator=(&&)" /\ Other = Self

\* C1: whatever the client does with fresh addresses and its own handles, no
\* address is passed to std::free() more than once.
C1_NoDoubleFree == \A a \in Addrs : freeCount[a] <= 1

\* C1 case: a handle was reset with the address it holds after another
\* address had already been freed.
C1_Witness ==
  /\ SelfReset
  /\ last.arg # nullptr
  /\ \E a \in Addrs : freeCount[a] = 1

\* C2: no two existing handles hold the same non-null address.
C2_ExclusiveOwnership ==
  \A h1, h2 \in Live : (h1 # h2 /\ ptr_[h1] # nullptr) => ptr_[h1] # ptr_[h2]

\* C2 case: a move construction from a non-empty handle left two handles alive.
C2_Witness ==
  /\ last.op = "unique_cptr(&&)"
  /\ Before(Other) # nullptr
  /\ Cardinality(Live) = 2

\* C3: after a move construction, or a move assignment between distinct
\* handles, the source is empty (operator bool false, get() null) and the
\* target holds the address the source held; a move assignment has freed the
\* target's old address exactly once and has not freed the transferred one.
C3_MoveTransfer ==
  LET moved == /\ ~operator_bool(ptr_, Other)
               /\ get(ptr_, Other).ret = nullptr
               /\ ptr_[Self] = Before(Other)
  IN  /\ last.op = "unique_cptr(&&)" => moved
      /\ (last.op = "operator=(&&)" /\ Other # Self) =>
           /\ moved
           /\ Before(Self) # nullptr =>
                (freeCount[Before(Self)] = 1 /\ last.freed = <<Before(Self)>>)
           /\ Before(Other) # nullptr => freeCount[Before(Other)] = 0

\* C3 case: a move assignment between two distinct non-empty handles.
C3_Witness ==
  /\ last.op = "operator=(&&)"
  /\ Other # Self
  /\ Before(Self) # nullptr
  /\ Before(Other) # nullptr

\* C4: a.reset(a.get()) and a = std::move(a) call std::free() not at all and
\* leave every handle as it was.
C4_SelfAssignNoOp ==
  (SelfReset \/ SelfMoveAssign) => (NoFreeCall /\ ptr_ = last.pre)

\* C4 case: a non-empty handle was move-assigned to itself.
C4_Witness == SelfMoveAssign /\ Before(Self) # nullptr

\* C5: get() returns the held address and changes nothing; release() returns
\* the held address, empties the handle and frees nothing; destroying,
\* resetting or nullptr-assigning the handle right after does not free it.
C5_ReleaseRoundTrip ==
  /\ last.op = "get" => (last.ret = Before(Self) /\ ptr_ = last.pre /\ NoFreeCall)
  /\ last.op = "release" =>
       /\ last.ret = Before(Self)
       /\ ptr_[Self] = nullptr
       /\ NoFreeCall
       /\ last.ret # nullptr => (freeCount[last.ret] = 0 /\ last.ret \in callerHeld)
  /\ ( /\ last.op \in {"~unique_cptr", "reset", "operator=(nullptr)"}
       /\ last.prev.op = "release"
       /\ last.prev.self = Self
       /\ last.prev.ret # nullptr ) =>
       (last.prev.ret \notin Deallocated(last.freed) /\ freeCount[last.prev.ret] = 0)

\* C5 case: a handle was destroyed right after release() returned its address.
C5_Witness ==
  /\ last.op = "~unique_cptr"
  /\ last.prev.op = "release"
  /\ last.prev.self = Self
  /\ last.prev.ret # nullptr

\* C6: reset(q) with q not the held address p leaves the handle holding q,
\* has freed p exactly once if p is not null and nothing if it is, and has
\* not freed q.
C6_Reset ==
  (last.op = "reset" /\ last.arg # Before(Self)) =>
    /\ ptr_[Self] = last.arg
    /\ Before(Self) # nullptr =>
         (freeCount[Before(Self)] = 1 /\ last.freed = <<Before(Self)>>)
    /\ Before(Self) = nullptr => Deallocated(last.freed) = {}
    /\ last.arg # nullptr => freeCount[last.arg] = 0

\* C6 case: a non-empty handle was reset with another non-null address.
C6_Witness ==
  /\ last.op = "reset"
  /\ last.arg # Before(Self)
  /\ last.arg # nullptr
  /\ Before(Self) # nullptr

\* C7: once every handle is destroyed, each address ever given to a handle
\* has been freed exactly once, unless release() gave it back to the caller,
\* and then it has not been freed; destroying an empty handle frees nothing.
C7_NoLeak ==
  /\ Live = {} =>
       \A a \in allocated : freeCount[a] = (IF a \in callerHeld THEN 0 ELSE 1)
  /\ (last.op = "~unique_cptr" /\ Before(Self) = nullptr) =>
       Deallocated(last.freed) = {}

\* C7 case: the last handle was destroyed holding an address, and another
\* address is with the caller.
C7_Witness ==
  /\ Live = {}
  /\ last.op = "~unique_cptr"
  /\ Before(Self) # nullptr
  /\ callerHeld # {}

-----------------------------------------------------------------------------
(* Properties of the resource-id helpers, checked under SpecCodec *)

\* (id >> k) & 0xFF as a number
ByteAt(id, k) == LET b(j) == id[k + j] * (2 ^ j)
                 IN  b(0) + b(1) + b(2) + b(3) + b(4) + b(5) + b(6) + b(7)

\* a | b for two uint8_t values
ByteOr(a, b) == LET o(j) == (IF Bit(a, j) = 1 \/ Bit(b, j) = 1 THEN 1 ELSE 0) * (2 ^ j)
                IN  o(0) + o(1) + o(2) + o(3) + o(4) + o(5) + o(6) + o(7)

\* C8 as stated: get_package_id(fix_package_id(id, pkg)) == pkg for every id
\* and pkg.
C8_RoundTripAnyId ==
  call.fn = "fix_package_id" => get_package_id(resid) = call.pkg

\* C8 as amended: get_package_id(fix_package_id(id, pkg)) is the bitwise or
\* of id's package byte and pkg; it is pkg exactly when every package bit of
\* id is also set in pkg, in particular when id's package byte is zero.
C8_RoundTripOrMerge ==
  call.fn = "fix_package_id" =>
    LET old == ByteAt(call.id, 24)
    IN  /\ get_package_id(resid) = ByteOr(old, call.pkg)
        /\ get_package_id(resid) = call.pkg <=> ByteOr(old, call.pkg) = call.pkg
        /\ old = 0 => get_package_id(resid) = call.pkg

\* C8 case: a package id was put into an id whose package byte was zero.
C8_Witness ==
  /\ call.fn = "fix_package_id"
  /\ ByteAt(call.id, 24) = 0
  /\ call.pkg # 0

\* C9: is_valid_resid(id) is true exactly when get_package_id(id) and
\* get_type_id(id) are both non-zero, these being (id >> 24) & 0xFF and
\* (id >> 16) & 0xFF.
C9_IsValid ==
  call.fn = "is_valid_resid" =>
    /\ call.retb <=> (get_package_id(call.id) # 0 /\ get_type_id(call.id) # 0)
    /\ get_package_id(call.id) = ByteAt(call.id, 24)
    /\ get_type_id(call.id) = ByteAt(call.id, 16)

\* C9 case: is_valid_resid returned true.
C9_Witness == call.fn = "is_valid_resid" /\ call.retb

\* C10: is_internal_resid(id) is true exactly when the package byte is not
\* zero and the type byte is zero, whatever the entry bits; no id is both
\* internal and valid.
C10_IsInternal ==
  call.fn = "is_internal_resid" =>
    /\ call.retb <=> (ByteAt(call.id, 24) # 0 /\ ByteAt(call.id, 16) = 0)
    /\ ~(call.retb /\ is_valid_resid(call.id))

\* C10 case: is_internal_resid returned true for an id with entry bits set.
C10_Witness ==
  /\ call.fn = "is_internal_resid"
  /\ call.retb
  /\ get_entry_id(call.id) # 0

=============================================================================
